---- MODULE Spec2Model ----
(***************************************************************************)
(* Refresh-token and session lifecycle of the health score API.            *)
(*                                                                         *)
(* State: the refresh_tokens and user_sessions tables, the clock, the      *)
(* refresh tokens clients hold, and the position of each caller that is    *)
(* inside RefreshToken.create (which commits twice: the parent's           *)
(* revocation, then the insert of the new row).                            *)
(* Time is counted in minutes.                                             *)
(***************************************************************************)
EXTENDS Integers, FiniteSets, Sequences, TLC

\* ---------------------------------------------------------------- bounds
\* Rows ever inserted into refresh_tokens and user_sessions together.
MaxRecords == 3
\* Steps of the clock.
MaxTicks == 1

\* ------------------------------------------------------ program constants
ACCESS_TOKEN_EXPIRE_MINUTES == 30
REFRESH_TOKEN_EXPIRE_DAYS == 7

AccessTtl == ACCESS_TOKEN_EXPIRE_MINUTES
RefreshTtl == REFRESH_TOKEN_EXPIRE_DAYS * 24 * 60

\* Callers that may be inside RefreshToken.create.  They are interchangeable,
\* so the second is used only while the first is busy.
Workers == {"w1", "w2"}
Before(w) == IF w = "w2" THEN {"w1"} ELSE {}

\* Registered users, their ids and passwords; the names and passwords a login
\* may be tried with.
Usernames == {"alice", "bob"}
UserId(u) == IF u = "alice" THEN 1 ELSE 2
UserIds == {UserId(u) : u \in Usernames}
Password(u) == IF u = "alice" THEN "pwA" ELSE "pwB"
Email(u) == IF u = "alice" THEN "alice@x" ELSE IF u = "bob" THEN "bob@x" ELSE "carol@x"
LoginNames == Usernames \cup {"mallory"}
LoginPasswords == {"pwA", "pwB"}

\* Values of the access token's rolling_code (secrets.token_hex).
RollingCodes == {"c1", "c2"}

\* Raw refresh secrets the caller mints, one name per refresh_tokens row, and
\* secrets that only a session carries, one name per user_sessions row.
RawNames == <<"r1", "r2", "r3", "r4", "r5", "r6">>
SessionRawNames == <<"q1", "q2", "q3", "q4", "q5", "q6">>

\* Session identifiers the caller mints, one per user_sessions row.
SessionNames == <<"s1", "s2", "s3", "s4", "s5", "s6">>

\* How far the clock may jump in one step; each is far longer than one call.
Steps == {AccessTtl, RefreshTtl}

\* Jumps to the last minute a refresh token issued now is accepted, and to the
\* minute after it.
ExpirySteps == {RefreshTtl, RefreshTtl + 1}

\* Values a caller passes as expires_in (minutes): the default.
ExpiresInChoices == {RefreshTtl}

VARIABLES
    now,        \* the clock (minutes)
    ticks,      \* number of clock steps taken
    rt,         \* refresh_tokens table: a set of rows
    us,         \* user_sessions table: a set of rows
    nextId,     \* autoincrement of refresh_tokens.id
    nextSid,    \* autoincrement of user_sessions.id
    loc,        \* per worker: position and locals inside RefreshToken.create
    issued,     \* refresh tokens handed to clients: [uid, tok]
    succ,       \* per presented refresh token: calls that returned a new token
    resp,       \* what the last call of an HTTP handler returned or raised
    req,        \* what that call was given
    users,      \* users table: a set of rows
    acts,       \* activities table: a set of rows
    scores,     \* health scores table: a set of rows
    reg         \* per worker: position and locals inside create_user

\* The tables of the application proper and the callers registering a user.
app == <<users, acts, scores, reg>>

vars == <<now, ticks, rt, us, nextId, nextSid, loc, issued, succ, resp, req, app>>

\* ------------------------------------------------------------ token codec
\* A JWT: the claims that were signed, its expiry and whether its signature
\* verifies under SECRET_KEY.  key/val is the one entry of the data dict.
NoToken == [typ |-> "none", key |-> "none", val |-> "", exp |-> 0, rc |-> "", sig |-> "none"]
\* A string that is no token signed by this server.
BadToken == [typ |-> "refresh", key |-> "sub", val |-> "alice", exp |-> RefreshTtl, rc |-> "", sig |-> "bad"]

create_refresh_token(k, v, t) ==
    [typ |-> "refresh", key |-> k, val |-> v, exp |-> t + RefreshTtl, rc |-> "", sig |-> "ok"]

\* An access token that carries the kind of a refresh token.
create_access_tokenAsRefresh(k, v, t, code) ==
    [typ |-> "refresh", key |-> k, val |-> v, exp |-> t + AccessTtl, rc |-> code, sig |-> "ok"]

create_access_token(k, v, t, code) ==
    [typ |-> "access", key |-> k, val |-> v, exp |-> t + AccessTtl, rc |-> code, sig |-> "ok"]

\* The same with an expires_delta (minutes); a delta of 0 is falsy and gives
\* the default lifetime.
create_refresh_token_delta(k, v, t, expires_delta) ==
    IF expires_delta # 0
    THEN [create_refresh_token(k, v, t) EXCEPT !.exp = t + expires_delta]
    ELSE create_refresh_token(k, v, t)

create_access_token_delta(k, v, t, code, expires_delta) ==
    IF expires_delta # 0
    THEN [create_access_token(k, v, t, code) EXCEPT !.exp = t + expires_delta]
    ELSE create_access_token(k, v, t, code)

\* jwt.decode: the signature verifies and exp has not passed (exp >= now).
jwt_decode_ok(tok, t) == tok.sig = "ok" /\ tok.exp >= t

\* A verification that also asks the refresh_tokens table.
verify_refresh_tokenAsksStore(tok, t) ==
    /\ jwt_decode_ok(tok, t)
    /\ tok.typ = "refresh"
    /\ ~\E r \in rt : r.token = tok /\ r.is_revoked

\* A verification that does not look at the kind.
verify_refresh_tokenAnyKind(tok, t) == jwt_decode_ok(tok, t)

\* A verification that does not look at the expiry.
verify_refresh_tokenIgnoresExpiry(tok, t) == tok.sig = "ok" /\ tok.typ = "refresh"

\* verify_refresh_token returns the payload, or None.
verify_refresh_token(tok, t) == jwt_decode_ok(tok, t) /\ tok.typ = "refresh"

\* What jwt.decode returns or raises: the claims that were signed, without exp
\* and rolling_code.
Payload(k, v, kind) == [key |-> k, val |-> v, token_type |-> kind]

jwt_decode(tok, t) ==
    IF tok.sig # "ok" THEN [op |-> "decode", status |-> 401, error |-> "JWTError"]
    ELSE IF ~jwt_decode_ok(tok, t)
    THEN [op |-> "decode", status |-> 401, error |-> "ExpiredSignatureError"]
    ELSE [op |-> "decode", status |-> 200, payload |-> Payload(tok.key, tok.val, tok.typ)]

\* payload.get("token") of a verified token; "" stands for None.
TokenClaim(tok) == IF tok.key = "token" THEN tok.val ELSE ""

\* ------------------------------------------------- refresh_tokens table
\* The parent_token column: a JWT whose claim is the presented parent token.
NoParent == [claim |-> NoToken, exp |-> 0]
ParentColumn(ptok, t) == [claim |-> ptok, exp |-> t + RefreshTtl]

\* RefreshToken.is_active
RTIsActive(r, t) == ~r.is_revoked /\ r.expires_at > t

\* RefreshToken.get_by_token: the rows the scan can return for a presented
\* token (the query has no ORDER BY, so any matching row may come first);
\* the empty set stands for None.
get_by_token(rows, tok, t) ==
    IF ~verify_refresh_token(tok, t) THEN {}
    ELSE {r \in rows : /\ ~r.is_revoked
                       /\ r.expires_at > t
                       /\ verify_refresh_token(r.token, t)
                       /\ TokenClaim(r.token) = TokenClaim(tok)}

\* A revoke that flips the flag instead of setting it.
RTMarkRevokedFlips(r) == [r EXCEPT !.is_revoked = ~r.is_revoked]

\* RefreshToken.revoke, on the row object: is_revoked = True.
RTMarkRevoked(r) == [r EXCEPT !.is_revoked = TRUE]

\* The table after committing the revocation of the row with this id.
RTRevokeRow(rows, id) == {IF r.id = id THEN RTMarkRevoked(r) ELSE r : r \in rows}

\* Locals of a caller that is not inside RefreshToken.create.
\* raced and reuse are not locals of the code: raced records that another call
\* presenting the same token overlapped this one, reuse the families of the
\* revoked rows the presented token matched when the call began.
IdleLoc == [pc |-> "idle", user_id |-> 0, ptok |-> NoToken,
            parent |-> 0, fam |-> 0, expires_at |-> 0, raced |-> FALSE, reuse |-> {}]

InFlight == {w \in Workers : loc[w].pc # "idle"}

\* Rows inserted so far, in both tables.
Records == (nextId - 1) + (nextSid - 1)

\* The revoked rows a presented token matches.
RevokedMatches(rows, tok, t) ==
    IF ~verify_refresh_token(tok, t) THEN {}
    ELSE {r \in rows : r.is_revoked /\ TokenClaim(r.token) = TokenClaim(tok)}

\* One more call that was presented tok and returned a new token; raced counts
\* the calls among them that overlapped another call presenting tok.
Bump(f, tok, raced) ==
    LET d == IF raced THEN 1 ELSE 0
    IN  IF tok \in DOMAIN f
        THEN [f EXCEPT ![tok] = [n |-> @.n + 1, raced |-> @.raced + d]]
        ELSE [x \in DOMAIN f \cup {tok} |->
                 IF x = tok THEN [n |-> 1, raced |-> d] ELSE f[x]]

\* RefreshToken.create, first part: now/expires_at are computed, and with a
\* parent_token the parent is looked up (a SELECT; nothing is written yet).
\* Without a parent_token this is the first token of a login; with one, a
\* client presents a token it was handed and the new token is created for
\* that client's user.
RTCreateBegin(w, uid, ptok, expires_in) ==
    /\ loc[w].pc = "idle"
    /\ Before(w) \subseteq InFlight
    /\ Records + Cardinality(InFlight) < MaxRecords
    /\ LET found == IF ptok = NoToken THEN {} ELSE get_by_token(rt, ptok, now)
           racers == IF ptok = NoToken THEN {}
                     ELSE {v \in InFlight : loc[v].ptok = ptok}
           mine(parent, fam, pc) ==
               [pc |-> pc, user_id |-> uid, ptok |-> ptok,
                parent |-> parent, fam |-> fam, expires_at |-> now + expires_in,
                raced |-> racers # {},
                reuse |-> IF ptok = NoToken THEN {}
                          ELSE {r.token_family : r \in RevokedMatches(rt, ptok, now)}]
           others == [v \in Workers |->
               IF v \in racers THEN [loc[v] EXCEPT !.raced = TRUE] ELSE loc[v]]
       IN  IF found = {}
           THEN loc' = [others EXCEPT ![w] = mine(0, 0, "insert")]
           ELSE \E parent \in found :
                  loc' = [others EXCEPT
                             ![w] = mine(parent.id, parent.token_family, "revoke")]
    /\ UNCHANGED <<now, ticks, rt, us, nextId, nextSid, issued, succ, resp, req, app>>

\* RefreshToken.create, parent.revoke(db): the parent row is marked revoked and
\* committed.  A row deleted since it was read makes the UPDATE match no row,
\* which the ORM raises, ending the call.
RTCreateRevoke(w) ==
    /\ loc[w].pc = "revoke"
    /\ IF \E r \in rt : r.id = loc[w].parent
       THEN /\ rt' = RTRevokeRow(rt, loc[w].parent)
            /\ loc' = [loc EXCEPT ![w].pc = "insert"]
       ELSE /\ loc' = [loc EXCEPT ![w] = IdleLoc]
            /\ UNCHANGED rt
    /\ UNCHANGED <<now, ticks, us, nextId, nextSid, issued, succ, resp, req, app>>

\* A row that always starts a family of its own.
RTNewRowFreshFamily(l, id, t) ==
    [id |-> id,
     user_id |-> l.user_id,
     token |-> create_refresh_token("token", RawNames[id], t),
     parent_token |-> IF l.ptok = NoToken THEN NoParent ELSE ParentColumn(l.ptok, t),
     token_family |-> id,
     is_revoked |-> FALSE,
     expires_at |-> l.expires_at]

\* The row RefreshToken.create builds; the raw secret is named after the row.
RTNewRow(l, id, t) ==
    [id |-> id,
     user_id |-> l.user_id,
     token |-> create_refresh_token("token", RawNames[id], t),
     parent_token |-> IF l.ptok = NoToken THEN NoParent ELSE ParentColumn(l.ptok, t),
     token_family |-> IF l.fam = 0 THEN id ELSE l.fam,
     is_revoked |-> FALSE,
     expires_at |-> l.expires_at]

\* RefreshToken.create, last part: the new row is inserted and committed.  The
\* unique index on (token, user_id) rejects a duplicate.
RTCreateInsert(w) ==
    /\ loc[w].pc = "insert"
    /\ LET row == RTNewRow(loc[w], nextId, now)
           ptok == loc[w].ptok
       IN  IF \E r \in rt : r.token = row.token /\ r.user_id = row.user_id
           THEN UNCHANGED <<rt, nextId, issued, succ>>
           ELSE /\ rt' = rt \cup {row}
                /\ nextId' = nextId + 1
                /\ issued' = issued \cup {[uid |-> row.user_id, tok |-> row.token]}
                /\ succ' = IF ptok = NoToken THEN succ
                           ELSE Bump(succ, ptok, loc[w].raced)
    /\ loc' = [loc EXCEPT ![w] = IdleLoc]
    /\ UNCHANGED <<now, ticks, us, nextSid, resp, req, app>>

\* The process running RefreshToken.create dies between its commits.
Crash(w) ==
    /\ loc[w].pc # "idle"
    /\ loc' = [loc EXCEPT ![w] = IdleLoc]
    /\ UNCHANGED <<now, ticks, rt, us, nextId, nextSid, issued, succ, resp, req, app>>

\* RefreshToken.revoke called on a row.
RTRevoke(id) ==
    /\ \E r \in rt : r.id = id
    /\ rt' = RTRevokeRow(rt, id)
    /\ UNCHANGED <<now, ticks, us, nextId, nextSid, loc, issued, succ, resp, req, app>>

\* RefreshToken.revoke_family: the rows it selects, and the table afterwards.
\* A selection that does not look at is_revoked.
FamilyToRevokeAnyRow(rows, fam) == {r \in rows : r.token_family = fam}

FamilyToRevoke(rows, fam) == {r \in rows : r.token_family = fam /\ r.is_revoked = FALSE}

\* What revoke_family returns: count = len(tokens).
revoke_family_count(rows, fam) == Cardinality(FamilyToRevoke(rows, fam))

revoke_family(rows, fam) ==
    {IF r \in FamilyToRevoke(rows, fam) THEN RTMarkRevoked(r) ELSE r : r \in rows}

RTRevokeFamily(fam) ==
    /\ rt' = revoke_family(rt, fam)
    /\ UNCHANGED <<now, ticks, us, nextId, nextSid, loc, issued, succ, resp, req, app>>

\* A sweep that keeps a row at the instant of its expiry.
RTExpiredStrictly(rows, t) == {r \in rows : r.expires_at < t}

\* RefreshToken.cleanup_expired: deletes the rows with expires_at <= now.
RTExpired(rows, t) == {r \in rows : r.expires_at <= t}

\* What cleanup_expired returns: the number of rows the DELETE matched.
cleanup_expired_count(rows, t) == Cardinality(RTExpired(rows, t))

RTCleanupExpired ==
    /\ rt' = rt \ RTExpired(rt, now)
    /\ UNCHANGED <<now, ticks, us, nextId, nextSid, loc, issued, succ, resp, req, app>>

\* --------------------------------------------------- user_sessions table
\* UserSession.is_active and UserSession.can_refresh
USIsActive(s, t) == ~s.is_revoked /\ s.expires_at > t
can_refresh(s, t) == s.refresh_token # NoToken /\ s.refresh_expires_at > t

\* UserSession.get_by_refresh_token: the rows the scan can return; the empty
\* set stands for None.
get_by_refresh_token(rows, tok, t) ==
    IF ~verify_refresh_token(tok, t) THEN {}
    ELSE {s \in rows : /\ s.refresh_token # NoToken
                       /\ ~s.is_revoked
                       /\ s.refresh_expires_at > t
                       /\ verify_refresh_token(s.refresh_token, t)
                       /\ TokenClaim(s.refresh_token) = TokenClaim(tok)}

\* A lookup that does not look at is_revoked.
get_active_by_session_idAnyState(rows, sid, t) ==
    {s \in rows : s.session_id = sid /\ s.expires_at > t}

\* UserSession.get_active_by_session_id: the rows first() can return; the empty
\* set stands for None.
get_active_by_session_id(rows, sid, t) ==
    {s \in rows : s.session_id = sid /\ s.is_revoked = FALSE /\ s.expires_at > t}

\* What a lookup was asked and what it returned: found holds the row, or is
\* empty for None.
LookupResult(op, sid, tok, found) ==
    [op |-> op, status |-> 200, session_id |-> sid, token |-> tok, found |-> found]

FirstOf(op, sid, tok, candidates) ==
    IF candidates = {} THEN resp' = LookupResult(op, sid, tok, {})
    ELSE \E s \in candidates : resp' = LookupResult(op, sid, tok, {s})

USLookupSession(sid) ==
    /\ FirstOf("get_active_by_session_id", sid, NoToken, get_active_by_session_id(us, sid, now))
    /\ UNCHANGED <<now, ticks, rt, us, nextId, nextSid, loc, issued, succ, req, app>>

USLookupToken(tok) ==
    /\ FirstOf("get_by_refresh_token", "", tok, get_by_refresh_token(us, tok, now))
    /\ UNCHANGED <<now, ticks, rt, us, nextId, nextSid, loc, issued, succ, req, app>>

\* The row UserSession.create builds.
USNewRow(id, uid, raw, t) ==
    [id |-> id,
     user_id |-> uid,
     session_id |-> SessionNames[id],
     refresh_token |-> create_refresh_token("token", raw, t),
     is_revoked |-> FALSE,
     expires_at |-> t + AccessTtl,
     refresh_expires_at |-> t + RefreshTtl]

\* UserSession.create: one insert and commit.  The unique index on
\* (refresh_token, user_id) rejects a duplicate.
USCreate(uid, raw) ==
    /\ Records + Cardinality(InFlight) < MaxRecords
    /\ LET row == USNewRow(nextSid, uid, raw, now)
       IN  IF \E s \in us : s.refresh_token = row.refresh_token /\ s.user_id = uid
           THEN UNCHANGED <<us, nextSid>>
           ELSE /\ us' = us \cup {row}
                /\ nextSid' = nextSid + 1
    /\ UNCHANGED <<now, ticks, rt, nextId, loc, issued, succ, resp, req, app>>

\* A revoke that leaves the session's refresh token in place.
USMarkRevokedKeepsToken(s) == [s EXCEPT !.is_revoked = TRUE]

\* UserSession.revoke, on the row object.
USMarkRevoked(s) == [s EXCEPT !.is_revoked = TRUE, !.refresh_token = NoToken]

USRevoke(id) ==
    /\ \E s \in us : s.id = id
    /\ us' = {IF s.id = id THEN USMarkRevoked(s) ELSE s : s \in us}
    /\ UNCHANGED <<now, ticks, rt, nextId, nextSid, loc, issued, succ, resp, req, app>>

\* UserSession.revoke_all_for_user: the rows it selects ("" stands for no
\* exclude_session_id), and the table afterwards.
\* A selection that excludes no session.
SessionsToRevokeNoExclude(rows, uid, exclude) ==
    {s \in rows : s.user_id = uid /\ s.is_revoked = FALSE}

SessionsToRevoke(rows, uid, exclude) ==
    {s \in rows : /\ s.user_id = uid
                  /\ s.is_revoked = FALSE
                  /\ (exclude # "" => s.session_id # exclude)}

revoke_all_for_user(rows, uid, exclude) ==
    {IF s \in SessionsToRevoke(rows, uid, exclude) THEN USMarkRevoked(s) ELSE s :
        s \in rows}

\* What revoke_all_for_user returns: count = len(sessions).
revoke_all_for_user_count(rows, uid, exclude) ==
    Cardinality(SessionsToRevoke(rows, uid, exclude))

USRevokeAllForUser(uid, exclude) ==
    /\ us' = revoke_all_for_user(us, uid, exclude)
    /\ UNCHANGED <<now, ticks, rt, nextId, nextSid, loc, issued, succ, resp, req, app>>

\* UserSession.cleanup_expired: deletes the rows whose access expiry or refresh
\* expiry has passed.
USExpired(rows, t) ==
    {s \in rows : s.expires_at <= t \/ s.refresh_expires_at <= t}

USCleanupExpired ==
    /\ us' = us \ USExpired(us, now)
    /\ UNCHANGED <<now, ticks, rt, nextId, nextSid, loc, issued, succ, resp, req, app>>

\* cleanup_auth_tables: both sweeps, sessions first.
CleanupAuthTables ==
    /\ us' = us \ USExpired(us, now)
    /\ rt' = rt \ RTExpired(rt, now)
    /\ UNCHANGED <<now, ticks, nextId, nextSid, loc, issued, succ, resp, req, app>>

\* ----------------------------------------------------------- HTTP handlers
\* What a handler returned (status 200 with the tokens) or raised.
Response(op, status, detail, access, refresh) ==
    [op |-> op, status |-> status, detail |-> detail, access |-> access, refresh |-> refresh,
     user |-> ""]

NoResponse == Response("none", 0, "", NoToken, NoToken)

\* What a handler was called with: the form fields of a login, or the token
\* presented to refresh or as bearer credential.
LoginRequest(u, pw) == [op |-> "login", username |-> u, password |-> pw, token |-> NoToken]
TokenRequest(op, tok) == [op |-> op, username |-> "", password |-> "", token |-> tok]
NoRequest == TokenRequest("none", NoToken)

\* AuthService.authenticate_user: the user exists and the password verifies.
authenticate_user(u, pw) == u \in Usernames /\ pw = Password(u)

\* A login that tells an unknown username from a wrong password.
loginRevealsUnknown(u, pw, t, code) ==
    IF u \notin Usernames
    THEN Response("login", 401, "User not found", NoToken, NoToken)
    ELSE IF pw # Password(u)
    THEN Response("login", 401, "Incorrect username or password", NoToken, NoToken)
    ELSE Response("login", 200, "", create_access_token("sub", u, t, code),
                  create_refresh_token("sub", u, t))

\* login (POST /token): reads no table but users, writes none.
login(u, pw, t, code) ==
    IF ~authenticate_user(u, pw)
    THEN Response("login", 401, "Incorrect username or password", NoToken, NoToken)
    ELSE Response("login", 200, "", create_access_token("sub", u, t, code),
                  create_refresh_token("sub", u, t))

ApiLogin(u, pw, code) ==
    /\ resp' = login(u, pw, now, code)
    /\ issued' = IF resp'.status = 200
                 THEN issued \cup {[uid |-> UserId(u), tok |-> resp'.refresh]}
                 ELSE issued
    /\ req' = LoginRequest(u, pw)
    /\ UNCHANGED <<now, ticks, rt, us, nextId, nextSid, loc, succ, app>>

\* refresh_token (POST /refresh): the handler names the payload dict that
\* verify_refresh_token returns "username" and passes it to
\* get_user_by_username.  No username equals a dict: the driver rejects the
\* parameter (the call raises), or the query finds no user.  It reads neither
\* refresh_tokens nor user_sessions.
RefreshOutcomes(tok, t) ==
    IF ~verify_refresh_token(tok, t)
    THEN {Response("refresh", 401, "Invalid refresh token", NoToken, NoToken)}
    ELSE {Response("refresh", 500, "Internal Server Error", NoToken, NoToken),
          Response("refresh", 401, "User not found", NoToken, NoToken)}

ApiRefresh(tok) ==
    /\ resp' \in RefreshOutcomes(tok, now)
    /\ req' = TokenRequest("refresh", tok)
    /\ UNCHANGED <<now, ticks, rt, us, nextId, nextSid, loc, issued, succ, app>>

\* get_current_user, the dependency of every authenticated request: the user
\* the bearer token resolves to, or 401.
UserResponse(u) == [Response("me", 200, "", NoToken, NoToken) EXCEPT !.user = u]

\* A dependency that does not look at the kind of the token.
get_current_userAnyKind(tok, t) ==
    IF jwt_decode_ok(tok, t) /\ tok.key = "sub" /\ tok.val \in Usernames
    THEN UserResponse(tok.val)
    ELSE Response("me", 401, "Could not validate credentials", NoToken, NoToken)

get_current_user(tok, t) ==
    LET username == IF tok.key = "sub" THEN tok.val ELSE ""
        credentials_exception ==
            Response("me", 401, "Could not validate credentials", NoToken, NoToken)
    IN  IF ~jwt_decode_ok(tok, t) THEN credentials_exception
        ELSE IF username = "" \/ tok.typ # "access" THEN credentials_exception
        ELSE IF username \notin Usernames THEN credentials_exception
        ELSE UserResponse(username)

ApiCurrentUser(tok) ==
    /\ resp' = get_current_user(tok, now)
    /\ req' = TokenRequest("me", tok)
    /\ UNCHANGED <<now, ticks, rt, us, nextId, nextSid, loc, issued, succ, app>>

\* ------------------------------------------------------- users, activities
\* The rows the seed scripts leave in users and activities: every registered
\* user, and one activity of each.
SeedUsers == {[id |-> UserId(u), username |-> u, email |-> Email(u)] : u \in Usernames}
SeedActivities == {[id |-> UserId(u), user_id |-> UserId(u), notes |-> ""] : u \in Usernames}

\* Locals of a caller that is not inside create_user.
IdleReg == [pc |-> "idle", username |-> "", email |-> ""]

\* Names and emails a registration may be tried with, activity ids a request
\* may name (one of them of no activity), and the protected operations.
RegisterNames == Usernames \cup {"carol"}
RegisterEmails == {Email(u) : u \in RegisterNames}
ActivityIds == {a.id : a \in SeedActivities} \cup {999}
ProtectedOps == {"read_users_me", "create_activity", "read_activities",
                 "create_health_score", "read_health_scores"}
ByIdOps == {"read_activity", "update_activity", "delete_activity"}

AppRequest(op, tok, id) ==
    [op |-> op, username |-> "", password |-> "", token |-> tok, id |-> id]

\* get_current_active_user reads current_user.disabled of the user that
\* get_current_user returned.  The User model has no attribute of that name,
\* so the read raises for every user and the request ends with an internal
\* error; the 400 'Inactive user' and the return are never reached.
get_current_active_user(r) ==
    IF r.status # 200 THEN r
    ELSE Response("me", 500, "Internal Server Error", NoToken, NoToken)

\* The dependencies of a protected operation: oauth2_scheme refuses a request
\* without a bearer token (NoToken), then get_current_user, then
\* get_current_active_user.
Authenticated(tok, t) ==
    IF tok = NoToken
    THEN Response("me", 401, "Not authenticated", NoToken, NoToken)
    ELSE get_current_active_user(get_current_user(tok, t))

\* The bodies of the protected operations, run for the user the dependencies
\* resolved: the response and the two tables afterwards.
Outcome(r, a, h) == [resp |-> r, acts |-> a, scores |-> h]

NewId(rows) == IF rows = {} THEN 1 ELSE 1 + (CHOOSE m \in {x.id : x \in rows} :
                                               \A y \in rows : y.id <= m)

ProtectedBody(op, uid) ==
    LET ok == Response(op, 200, "", NoToken, NoToken)
    IN  IF op = "create_activity"
        THEN Outcome(ok, acts \cup {[id |-> NewId(acts), user_id |-> uid, notes |-> ""]}, scores)
        ELSE IF op = "create_health_score"
        THEN Outcome(ok, acts, scores \cup {[id |-> NewId(scores), user_id |-> uid]})
        ELSE Outcome(ok, acts, scores)

\* read_activity, update_activity, delete_activity: 404 for no such activity,
\* 403 for an activity of another user, else the operation.
ActivityBody(op, id, uid) ==
    LET found == {a \in acts : a.id = id}
    IN  IF found = {}
        THEN Outcome(Response(op, 404, "Activity not found", NoToken, NoToken), acts, scores)
        ELSE LET activity == CHOOSE a \in found : TRUE
             IN  IF activity.user_id # uid
                 THEN Outcome(Response(op, 403, "Not authorized", NoToken, NoToken),
                              acts, scores)
                 ELSE IF op = "update_activity"
                 THEN Outcome(Response(op, 200, "", NoToken, NoToken),
                              (acts \ {activity}) \cup {[activity EXCEPT !.notes = "edited"]},
                              scores)
                 ELSE IF op = "delete_activity"
                 THEN Outcome(Response(op, 200, "Activity deleted successfully",
                                       NoToken, NoToken),
                              acts \ {activity}, scores)
                 ELSE Outcome(Response(op, 200, "", NoToken, NoToken), acts, scores)

\* A request to a protected operation: the dependencies, then the body.
ApiCall(op, tok, id) ==
    /\ LET auth == Authenticated(tok, now)
           out == IF auth.status # 200
                  THEN Outcome([auth EXCEPT !.op = op], acts, scores)
                  ELSE IF op \in ByIdOps
                  THEN ActivityBody(op, id, UserId(auth.user))
                  ELSE ProtectedBody(op, UserId(auth.user))
       IN  /\ resp' = out.resp
           /\ acts' = out.acts
           /\ scores' = out.scores
    /\ req' = AppRequest(op, tok, id)
    /\ UNCHANGED <<now, ticks, rt, us, nextId, nextSid, loc, issued, succ, users, reg>>

ApiProtected(op, tok) == ApiCall(op, tok, 0)
ApiActivity(op, tok, id) == ApiCall(op, tok, id)

\* A create_user that looks up the email only.
RegisterCheckEmailOnly(w, username, email) ==
    /\ reg[w].pc = "idle"
    /\ Before(w) \subseteq {v \in Workers : reg[v].pc # "idle"}
    /\ req' = [op |-> "create_user", username |-> username, password |-> "",
               token |-> NoToken, email |-> email]
    /\ IF \E x \in users : x.email = email
       THEN /\ resp' = Response("create_user", 400, "Email already registered",
                                 NoToken, NoToken)
            /\ UNCHANGED reg
       ELSE /\ resp' = resp
            /\ reg' = [reg EXCEPT ![w] = [pc |-> "create", username |-> username,
                                           email |-> email]]
    /\ UNCHANGED <<now, ticks, rt, us, nextId, nextSid, loc, issued, succ, users, acts,
                   scores>>

\* create_user (POST /users/), first part: the two lookups.  A taken email or
\* username ends the call with 400.
RegisterCheck(w, username, email) ==
    /\ reg[w].pc = "idle"
    /\ Before(w) \subseteq {v \in Workers : reg[v].pc # "idle"}
    /\ req' = [op |-> "create_user", username |-> username, password |-> "",
               token |-> NoToken, email |-> email]
    /\ IF \E x \in users : x.email = email
       THEN /\ resp' = Response("create_user", 400, "Email already registered",
                                 NoToken, NoToken)
            /\ UNCHANGED reg
       ELSE IF \E x \in users : x.username = username
       THEN /\ resp' = Response("create_user", 400, "Username already taken",
                                 NoToken, NoToken)
            /\ UNCHANGED reg
       ELSE /\ resp' = resp
            /\ reg' = [reg EXCEPT ![w] = [pc |-> "create", username |-> username,
                                           email |-> email]]
    /\ UNCHANGED <<now, ticks, rt, us, nextId, nextSid, loc, issued, succ, users, acts,
                   scores>>

\* create_user, last part: UserService.create_user.  It reads user.full_name,
\* which UserCreate does not have, and passes full_name, disabled and is_admin
\* to User, which accepts none of them: the call raises before anything is
\* added to the session, and no row is written.
RegisterCreate(w) ==
    /\ reg[w].pc = "create"
    /\ resp' = Response("create_user", 500, "Internal Server Error", NoToken, NoToken)
    /\ req' = [op |-> "create_user", username |-> reg[w].username, password |-> "",
               token |-> NoToken, email |-> reg[w].email]
    /\ reg' = [reg EXCEPT ![w] = IdleReg]
    /\ UNCHANGED <<now, ticks, rt, us, nextId, nextSid, loc, issued, succ, users, acts,
                   scores>>

\* ------------------------------------------------------------------ clock
TickBy(S) ==
    /\ ticks < MaxTicks
    /\ InFlight = {}
    /\ \E d \in S : now' = now + d
    /\ ticks' = ticks + 1
    /\ UNCHANGED <<rt, us, nextId, nextSid, loc, issued, succ, resp, req, app>>

Tick == TickBy(Steps)

\* ---------------------------------------------------------- specification
Init ==
    /\ now = 0
    /\ ticks = 0
    /\ rt = {}
    /\ us = {}
    /\ nextId = 1
    /\ nextSid = 1
    /\ loc = [w \in Workers |-> IdleLoc]
    /\ issued = {}
    /\ succ = [x \in {} |-> [n |-> 0, raced |-> 0]]
    /\ resp = NoResponse
    /\ req = NoRequest
    /\ users = SeedUsers
    /\ acts = SeedActivities
    /\ scores = {}
    /\ reg = [w \in Workers |-> IdleReg]

\* Raw secrets a session of this user can be created with: one of the user's
\* refresh tokens, or a secret no refresh_tokens row has; a secret that a
\* session carries is not given to another.
SessionRaws(uid) ==
    ({c.tok.val : c \in {x \in issued : x.uid = uid}} \cup {SessionRawNames[nextSid]})
        \ {TokenClaim(s.refresh_token) : s \in us}

\* The token families that have rows.
Families == {r.token_family : r \in rt}

ExcludeChoices == {""} \cup {s.session_id : s \in us}

\* Operations other than RefreshToken.create.
Others ==
    \/ \E r \in rt : RTRevoke(r.id)
    \/ \E fam \in Families : RTRevokeFamily(fam)
    \/ RTCleanupExpired
    \/ \E uid \in UserIds : \E raw \in SessionRaws(uid) : USCreate(uid, raw)
    \/ \E s \in us : USRevoke(s.id)
    \/ \E uid \in UserIds, x \in ExcludeChoices : USRevokeAllForUser(uid, x)
    \/ USCleanupExpired
    \/ CleanupAuthTables
    \/ Tick

\* RefreshToken.create run by the callers in W.
Creates(W) ==
    \/ \E w \in W, uid \in UserIds, e \in ExpiresInChoices :
          RTCreateBegin(w, uid, NoToken, e)
    \/ \E w \in W, c \in issued, e \in ExpiresInChoices :
          RTCreateBegin(w, c.uid, c.tok, e)
    \/ \E w \in W : RTCreateRevoke(w)
    \/ \E w \in W : RTCreateInsert(w)
    \/ \E w \in W : Crash(w)

\* One caller at a time is inside RefreshToken.create.
Next == Creates({"w1"}) \/ Others

Spec == Init /\ [][Next]_vars

\* Tokens a client can present: the refresh tokens handed out, the access
\* token of the last response, and a string this server never signed.
Presentable == {c.tok : c \in issued} \cup {BadToken, resp.access}

\* The HTTP handlers and the clock.
NextApi ==
    \/ \E u \in LoginNames, pw \in LoginPasswords, code \in RollingCodes : ApiLogin(u, pw, code)
    \/ \E tok \in Presentable : ApiRefresh(tok)
    \/ \E tok \in Presentable : ApiCurrentUser(tok)
    \/ TickBy(Steps \cup ExpirySteps)

SpecApi == Init /\ [][NextApi]_vars

\* Two callers may be inside RefreshToken.create at once.
NextRace ==
    \/ Creates(Workers)
    \/ \E fam \in Families : RTRevokeFamily(fam)

SpecRace == Init /\ [][NextRace]_vars

\* Login, the protected operations and registration.
Bearers == Presentable \cup {NoToken}

NextApp ==
    \/ \E u \in LoginNames, pw \in LoginPasswords, code \in {"c1"} : ApiLogin(u, pw, code)
    \/ \E op \in ProtectedOps, tok \in Bearers : ApiProtected(op, tok)
    \/ \E op \in ByIdOps, tok \in Bearers, id \in ActivityIds : ApiActivity(op, tok, id)
    \/ \E w \in Workers, u \in RegisterNames, e \in RegisterEmails : RegisterCheck(w, u, e)
    \/ \E w \in Workers : RegisterCreate(w)
    \/ TickBy({RefreshTtl})

SpecApp == Init /\ [][NextApp]_vars

\* The token codec alone: a token is issued for some claims and lifetime, the
\* clock moves, the token is decoded.
CodecKinds == {"access", "refresh"}
CodecKeys == {"sub", "token"}
CodecValues == {"alice", "r1"}
CodecDeltas == {0, 1, AccessTtl}
CodecSteps == {1, AccessTtl}

CodecRequest(kind, k, v, delta, t, tok) ==
    [op |-> "issue", kind |-> kind, key |-> k, val |-> v, delta |-> delta, at |-> t,
     token |-> tok]

CodecIssue(kind, k, v, delta, code) ==
    /\ req' = CodecRequest(kind, k, v, delta, now,
                           IF kind = "access"
                           THEN create_access_token_delta(k, v, now, code, delta)
                           ELSE create_refresh_token_delta(k, v, now, delta))
    /\ resp' = NoResponse
    /\ UNCHANGED <<now, ticks, rt, us, nextId, nextSid, loc, issued, succ, app>>

CodecDecode ==
    /\ req.op = "issue"
    /\ resp' = jwt_decode(req.token, now)
    /\ UNCHANGED <<now, ticks, rt, us, nextId, nextSid, loc, issued, succ, req, app>>

NextCodec ==
    \/ \E kind \in CodecKinds, k \in CodecKeys, v \in CodecValues, delta \in CodecDeltas,
          code \in RollingCodes : CodecIssue(kind, k, v, delta, code)
    \/ CodecDecode
    \/ TickBy(CodecSteps)

SpecCodec == Init /\ [][NextCodec]_vars

\* The refresh token the login handler returns to alice at time 0; login
\* writes no row for it.
LoginRefreshToken == login("alice", Password("alice"), 0, "c1").refresh

\* The refresh_tokens table alone, with one caller, around the expiry of a
\* refresh token; a client may also present the refresh token of a login.
NextExpiry ==
    \/ Creates({"w1"})
    \/ \E e \in ExpiresInChoices :
          RTCreateBegin("w1", UserId("alice"), LoginRefreshToken, e)
    \/ \E r \in rt : RTRevoke(r.id)
    \/ RTCleanupExpired
    \/ TickBy(ExpirySteps)

SpecExpiry == Init /\ [][NextExpiry]_vars

\* The user_sessions table alone.
NextSessions ==
    \/ \E uid \in UserIds : \E raw \in SessionRaws(uid) : USCreate(uid, raw)
    \/ \E s \in us : USRevoke(s.id)
    \/ \E uid \in UserIds, x \in ExcludeChoices : USRevokeAllForUser(uid, x)
    \/ USCleanupExpired
    \/ Tick

SpecSessions == Init /\ [][NextSessions]_vars

\* The refresh tokens the clients of the sessions hold: each session's token
\* as UserSession.create stored it, also after revoke has cleared the column.
HeldTokens ==
    {create_refresh_token("token", SessionRawNames[s.id], s.refresh_expires_at - RefreshTtl) :
       s \in us}

\* Sessions are created and revoked, the clock moves, and the two lookups
\* are asked.
NextLookup ==
    \/ \E uid \in UserIds : \E raw \in SessionRaws(uid) : USCreate(uid, raw)
    \/ \E s \in us : USRevoke(s.id)
    \/ Tick
    \/ \E s \in us : USLookupSession(s.session_id)
    \/ \E tok \in HeldTokens \cup {BadToken} : USLookupToken(tok)

SpecLookup == Init /\ [][NextLookup]_vars

\* ------------------------------------------------------------- properties
\* A session points at a refresh_tokens row when its stored refresh token
\* carries the row's raw secret (the claim both lookups compare).
Points(s, r) ==
    s.refresh_token # NoToken /\ TokenClaim(s.refresh_token) = TokenClaim(r.token)

\* A presented refresh token is still accepted by a lookup of either table.
Accepted(rows, sessions, tok, t) ==
    get_by_token(rows, tok, t) # {} \/ get_by_refresh_token(sessions, tok, t) # {}

\* The step in which worker w's RefreshToken.create returns a new token.
Returned(w) == RTCreateInsert(w) /\ nextId' = nextId + 1

\* C1: rotation is single-use: of the calls that present one refresh token, at
\* most one ever returns a new token.
C1_RotationSingleUse == \A t \in DOMAIN succ : succ[t].n <= 1

\* C2: of two calls that present the same refresh token at the same time, at
\* most one returns a new token.
C2_ConcurrentRefreshOneWinner == \A t \in DOMAIN succ : succ[t].raced <= 1

\* C3: a call that presents a token whose row is already revoked returns no
\* new token and leaves every row of that token's family revoked.
C3_ReuseRevokesFamily ==
    [][\A w \in Workers :
          (RTCreateInsert(w) /\ loc[w].reuse # {}) =>
              /\ nextId' = nextId
              /\ \A r \in rt' : r.token_family \in loc[w].reuse => r.is_revoked]_vars

\* C4: every token family has at most one row that is neither revoked nor
\* expired.
ActiveTips(fam) == {r \in rt : r.token_family = fam /\ RTIsActive(r, now)}

C4_OneActiveTipPerFamily == \A fam \in Families : Cardinality(ActiveTips(fam)) <= 1

\* C5: after a login and one refresh, a refresh that presents the original
\* token again returns no new token, while a refresh that presents the newest
\* token (an active row, never exchanged) finds its row and rotates it.
C5_ReplayFailsNewestSucceeds ==
    [][\A w \in Workers :
          /\ (Returned(w) /\ loc[w].ptok # NoToken) => loc[w].ptok \notin DOMAIN succ
          /\ \A c \in issued :
                (/\ RTCreateBegin(w, c.uid, c.tok, RefreshTtl)
                 /\ c.tok \notin DOMAIN succ
                 /\ \E r \in rt : r.token = c.tok /\ RTIsActive(r, now))
                => loc'[w].pc = "revoke"]_vars

\* C6: no non-revoked session points at a revoked refresh token, and every
\* non-revoked refresh token is claimed by a session.
C6_RotateRebindAtomic ==
    /\ \A s \in us : \A r \in rt : (~s.is_revoked /\ Points(s, r)) => ~r.is_revoked
    /\ \A r \in rt : ~r.is_revoked => \E s \in us : Points(s, r)

\* C7: is_revoked is monotonic: a revoked refresh_tokens or user_sessions row
\* is revoked or gone after every step.
C7_RevokedMonotonic ==
    [][/\ \A r \in rt : r.is_revoked => \A q \in rt' : q.id = r.id => q.is_revoked
       /\ \A s \in us : s.is_revoked => \A q \in us' : q.id = s.id => q.is_revoked]_vars

\* A revoked row and a revoked session exist, and the revoked row's family was
\* rotated on (it has another row).
C7_Witness ==
    /\ \E r \in rt : r.is_revoked /\ \E q \in rt : q.id # r.id /\ q.token_family = r.token_family
    /\ \E s \in us : s.is_revoked

\* C8: a revoked session has its refresh token cleared, or points at refresh
\* tokens that are revoked.
C8_RevokedSessionReleased ==
    \A s \in us : s.is_revoked =>
        \/ s.refresh_token = NoToken
        \/ /\ \E r \in rt : Points(s, r)
           /\ \A r \in rt : Points(s, r) => r.is_revoked

\* A session was revoked while a non-revoked refresh token exists.
C8_Witness == (\E s \in us : s.is_revoked) /\ (\E r \in rt : ~r.is_revoked)

\* C9: after revoke_all_for_user the refresh token of every session it
\* revoked is accepted nowhere, and the spared session's still is.
C9_LogoutAllEndsRefresh ==
    [][\A uid \in UserIds, x \in ExcludeChoices :
          USRevokeAllForUser(uid, x) =>
              \A s \in us :
                  /\ s \in SessionsToRevoke(us, uid, x)
                        => ~Accepted(rt', us', s.refresh_token, now)
                  /\ (s.user_id = uid /\ s.session_id = x /\ x # ""
                      /\ get_by_refresh_token(us, s.refresh_token, now) # {})
                        => get_by_refresh_token(us', s.refresh_token, now') # {}]_vars

\* C10: UserSession.revoke revokes the session and the refresh token bound to
\* it, and changes no other session and no other refresh token.
C10_LogoutOneSession ==
    [][\A s \in us :
          USRevoke(s.id) =>
              /\ \A q \in us' : q.id = s.id => q.is_revoked
              /\ \A r \in rt' : Points(s, r) => r.is_revoked
              /\ \A q \in us : q.id # s.id => q \in us'
              /\ \A r \in rt : ~Points(s, r) => r \in rt']_vars

\* C11: a call that presents a never-rotated refresh token strictly after its
\* row's expires_at returns no new token and changes no row (in particular it
\* revokes no family).
C11_ExpiredRefreshFails ==
    [][\A w \in Workers :
          (/\ RTCreateInsert(w)
           /\ loc[w].ptok # NoToken
           /\ loc[w].ptok \notin DOMAIN succ
           /\ \E r \in rt : r.token = loc[w].ptok /\ ~r.is_revoked /\ r.expires_at < now)
          => (nextId' = nextId /\ rt' = rt)]_vars

C13_LoginTokenRefreshes ==
    [][(/\ req.op = "login"
        /\ resp.status = 200
        /\ now < resp.refresh.exp
        /\ ApiRefresh(resp.refresh))
       => /\ resp'.status = 200
          /\ get_current_user(resp'.access, now') = UserResponse(req.username)
          /\ verify_refresh_token(resp'.refresh, now')
          /\ resp'.refresh.val = req.username]_vars

\* C14: a login with an unknown username and a login with a known username
\* and a wrong password have the same outcome: the same 401 response with no
\* tokens, and no change of any table or of the tokens handed out.
C14_LoginFailureUniform ==
    [][\A u \in LoginNames, pw \in LoginPasswords, code \in RollingCodes :
          (ApiLogin(u, pw, code) /\ (u \notin Usernames \/ pw # Password(u)))
          => /\ resp' = Response("login", 401, "Incorrect username or password",
                                 NoToken, NoToken)
             /\ UNCHANGED <<rt, us, nextId, nextSid, issued, succ, app>>]_vars

\* A login of a registered user with a wrong password was refused.
C14_Witness ==
    /\ req.op = "login"
    /\ req.username \in Usernames
    /\ req.password # Password(req.username)
    /\ resp.status = 401

\* C15: the refresh handler fails closed on a token that does not verify: for
\* a token with a bad signature, a malformed one, or one past its signed
\* expiry it raises 401 'Invalid refresh token', returns no tokens and changes
\* no row of either table.
C15_RefreshFailsClosed ==
    [][\A tok \in Presentable :
          (ApiRefresh(tok) /\ (tok.sig # "ok" \/ tok.exp < now))
          => /\ resp' = Response("refresh", 401, "Invalid refresh token", NoToken, NoToken)
             /\ UNCHANGED <<rt, us, nextId, nextSid, issued, succ, app>>]_vars

\* A refresh token this server signed was presented after its expiry and
\* refused.
C15_Witness ==
    /\ req.op = "refresh"
    /\ req.token.sig = "ok"
    /\ req.token.typ = "refresh"
    /\ req.token.exp < now
    /\ resp.status = 401

C17_UnknownTokenFails ==
    [][\A w \in Workers :
          (/\ RTCreateInsert(w)
           /\ loc[w].ptok # NoToken
           /\ verify_refresh_token(loc[w].ptok, now)
           /\ ~\E r \in rt : TokenClaim(r.token) = TokenClaim(loc[w].ptok))
          => (nextId' = nextId /\ rt' = rt)]_vars

\* C18: a login with valid credentials leaves exactly one new session and
\* exactly one new refresh_tokens row, both of the user who logged in, the
\* session pointing at the row, the row not revoked and in a new family.
C18_LoginCreatesSessionAndToken ==
    [][\A u \in LoginNames, pw \in LoginPasswords, code \in RollingCodes :
          (ApiLogin(u, pw, code) /\ u \in Usernames /\ pw = Password(u))
          => /\ Cardinality(us' \ us) = 1
             /\ Cardinality(rt' \ rt) = 1
             /\ \A s \in us' \ us : \A r \in rt' \ rt :
                   /\ Points(s, r)
                   /\ s.user_id = UserId(u) /\ r.user_id = UserId(u)
                   /\ ~s.is_revoked /\ ~r.is_revoked
                   /\ r.token_family \notin Families]_vars

\* C19: codec round trip: a token issued for some claims with a positive
\* lifetime decodes, at any time before issue time + lifetime, to the claims it
\* was issued for (same key, value and kind), and at or after that time
\* decoding fails as expired.
C19_CodecRoundTrip ==
    [][(CodecDecode /\ req.delta > 0)
       => /\ now < req.at + req.delta
             => resp' = [op |-> "decode", status |-> 200,
                         payload |-> Payload(req.key, req.val, req.kind)]
          /\ now >= req.at + req.delta
             => resp' = [op |-> "decode", status |-> 401,
                         error |-> "ExpiredSignatureError"]]_vars

\* C20: the expiry sweep is idempotent and safe: whatever a caller inside
\* RefreshToken.create is doing, a sweep removes only expired rows (a
\* refresh_tokens row past expires_at; a session past both its access and its
\* refresh expiry, so that it can neither be used nor refreshed), leaves every
\* other row as it was, and a second sweep at the same time finds nothing to
\* remove.
C20_SweepIdempotentSafe ==
    [][(RTCleanupExpired \/ USCleanupExpired \/ CleanupAuthTables)
       => /\ \A r \in rt \ rt' : r.expires_at <= now
          /\ \A x \in us \ us' : x.expires_at <= now /\ x.refresh_expires_at <= now
          /\ rt' \subseteq rt
          /\ us' \subseteq us
          /\ rt' # rt => RTExpired(rt', now') = {}
          /\ us' # us => USExpired(us', now') = {}]_vars

\* ------------------------------------------------------------------- C21
\* A bearer token that verifies as an access token of an existing user: signed
\* by this server, not expired, of kind access, naming a row of users.
VerifiesAsAccess(tok) ==
    /\ tok # NoToken
    /\ tok.sig = "ok"
    /\ tok.exp >= now
    /\ tok.typ = "access"
    /\ tok.key = "sub"
    /\ \E x \in users : x.username = tok.val

\* C21: a protected operation (create or list activities, create or list
\* health scores, read the current user) called without a bearer token, or
\* with one that does not verify as an access token of an existing user, is
\* answered 401 and changes no stored record.
C21_ProtectedRejectsUnauthenticated ==
    [][(/\ req'.op \in ProtectedOps
        /\ ApiProtected(req'.op, req'.token)
        /\ ~VerifiesAsAccess(req'.token))
       => /\ resp'.status = 401
          /\ UNCHANGED <<users, acts, scores, rt, us>>]_vars

\* A create operation was called with a refresh token that decodes and was
\* refused.
C21_Witness ==
    /\ req.op \in {"create_activity", "create_health_score"}
    /\ req.token.typ = "refresh"
    /\ jwt_decode_ok(req.token, now)
    /\ resp.status = 401
    /\ resp.op = req.op

\* ------------------------------------------------------------------- C22
\* No two rows of users share a username or an email.
UsersUnique ==
    \A x, y \in users : (x.username = y.username \/ x.email = y.email) => x = y

OutsideFamily(rows, fam) == {r \in rows : r.token_family # fam}

\* C23: a RefreshToken.create that found the row of its parent token marks
\* that row revoked and then adds exactly one row: not revoked, in the family
\* of the parent, its parent_token carrying the presented parent token.  Neither
\* step changes a row of another family.
C23_RotateSameFamily ==
    [][\A w \in Workers :
          /\ (RTCreateRevoke(w) /\ \E r \in rt : r.id = loc[w].parent)
             => /\ \A r \in rt' : r.id = loc[w].parent => r.is_revoked
                /\ OutsideFamily(rt', loc[w].fam) = OutsideFamily(rt, loc[w].fam)
          /\ (RTCreateInsert(w) /\ loc[w].parent # 0)
             => /\ \A r \in rt' : r.id = loc[w].parent => r.is_revoked
                /\ rt \subseteq rt'
                /\ \E row \in rt' \ rt :
                      /\ rt' = rt \cup {row}
                      /\ row.token_family = loc[w].fam
                      /\ \A r \in rt : r.id = loc[w].parent
                                         => row.token_family = r.token_family
                      /\ ~row.is_revoked
                      /\ row.parent_token.claim = loc[w].ptok
                      /\ row.user_id = loc[w].user_id
                /\ OutsideFamily(rt', loc[w].fam) = OutsideFamily(rt, loc[w].fam)]_vars

\* A rotation is complete: a revoked parent and, in its family, a non-revoked
\* row whose parent_token carries the parent's token, beside a row of another
\* family.
C23_Witness ==
    \E p, c, o \in rt :
        /\ p.is_revoked
        /\ ~c.is_revoked
        /\ c.id # p.id
        /\ c.parent_token.claim = p.token
        /\ c.token_family = p.token_family
        /\ o.token_family # p.token_family

\* ------------------------------------------------------------------- C24
\* The rows of the table before that a step turned from non-revoked to revoked.
NewlyRevoked(before, after) ==
    {r \in before : ~r.is_revoked /\ \E q \in after : q.id = r.id /\ q.is_revoked}

\* C24: revoke_family leaves every row of the family revoked, returns the
\* number of rows it turned from non-revoked to revoked, returns 0 and changes
\* nothing when called again, and neither adds, removes nor changes a row of
\* another family.
C24_RevokeFamilyFrame ==
    [][\A fam \in Families :
          RTRevokeFamily(fam)
          => /\ \A r \in rt' : r.token_family = fam => r.is_revoked
             /\ revoke_family_count(rt, fam) = Cardinality(NewlyRevoked(rt, rt'))
             /\ revoke_family_count(rt', fam) = 0
             /\ revoke_family(rt', fam) = rt'
             /\ {r.id : r \in rt'} = {r.id : r \in rt}
             /\ OutsideFamily(rt', fam) = OutsideFamily(rt, fam)]_vars

\* A family of a rotated token and its successor is revoked as a whole, beside
\* a family with a row that is not revoked.
C24_Witness ==
    \E p, c, o \in rt :
        /\ p.is_revoked
        /\ c.is_revoked
        /\ c.id # p.id
        /\ c.parent_token.claim = p.token
        /\ c.token_family = p.token_family
        /\ o.token_family # p.token_family
        /\ ~o.is_revoked

\* ------------------------------------------------------------------- C25
\* C25: revoke_all_for_user leaves every session of the user other than the
\* excepted one revoked and without refresh token, returns the number of
\* sessions it turned from non-revoked to revoked, and neither adds, removes
\* nor changes the excepted session or a session of another user.
C25_RevokeAllForUserFrame ==
    [][\A uid \in UserIds, x \in ExcludeChoices :
          USRevokeAllForUser(uid, x)
          => /\ \A s \in us' : (s.user_id = uid /\ (x = "" \/ s.session_id # x))
                                => (s.is_revoked /\ s.refresh_token = NoToken)
             /\ revoke_all_for_user_count(us, uid, x) = Cardinality(NewlyRevoked(us, us'))
             /\ {s.id : s \in us'} = {s.id : s \in us}
             /\ \A s \in us : (x # "" /\ s.session_id = x) => s \in us'
             /\ {s \in us' : s.user_id # uid} = {s \in us : s.user_id # uid}]_vars

\* A user has a revoked session without refresh token and a session that still
\* carries its token, beside a session of another user that carries its own.
C25_Witness ==
    \E s, k, o \in us :
        /\ s.user_id = k.user_id
        /\ s.is_revoked /\ s.refresh_token = NoToken
        /\ ~k.is_revoked /\ k.refresh_token # NoToken
        /\ o.user_id # s.user_id
        /\ ~o.is_revoked /\ o.refresh_token # NoToken

\* ------------------------------------------------------------------- C26
\* C26: RefreshToken.cleanup_expired removes exactly the rows with
\* expires_at <= now: afterwards no row with expires_at <= now is left, every
\* row with expires_at > now is there unchanged, and the number returned is the
\* number of rows removed; it removes nothing and returns 0 only where no row
\* has expires_at <= now.
C26_SweepExpiredExact ==
    [][/\ RTCleanupExpired
          => /\ \A r \in rt' : r.expires_at > now
             /\ rt' = {r \in rt : r.expires_at > now}
             /\ cleanup_expired_count(rt, now) = Cardinality(rt) - Cardinality(rt')
             /\ cleanup_expired_count(rt, now) = Cardinality(rt \ rt')
       /\ (cleanup_expired_count(rt', now') = 0) <=> (\A r \in rt' : r.expires_at > now')]_vars

\* A sweep removed a row and kept another: fewer rows than were inserted, and
\* every row left expires later than now.
C26_Witness ==
    /\ rt # {}
    /\ Cardinality(rt) < nextId - 1
    /\ \A r \in rt : r.expires_at > now
    /\ now > 0

\* ------------------------------------------------------------------- C27
\* C27: UserSession.cleanup_expired removes only sessions whose access expiry
\* and refresh expiry have both passed; a session whose access expiry has
\* passed and that can still refresh is kept.
C27_SessionSweepNeedsBoth ==
    [][USCleanupExpired
       => /\ \A s \in us \ us' : s.expires_at <= now /\ s.refresh_expires_at <= now
          /\ \A s \in us : (s.expires_at <= now /\ can_refresh(s, now)) => s \in us']_vars

\* ------------------------------------------------------------------- C28
\* C28: verification looks at the token and the clock only: a refresh token
\* that was handed out verifies exactly while its exp has not passed, whatever
\* became of its row; the token of a row that is revoked and not expired
\* verifies, and it is get_by_token that finds no row for it.
C28_CodecStateless ==
    /\ \A c \in issued : verify_refresh_token(c.tok, now) <=> (c.tok.exp >= now)
    /\ \A r \in rt : (r.is_revoked /\ r.expires_at > now)
                       => /\ verify_refresh_token(r.token, now)
                          /\ jwt_decode(r.token, now).status = 200
                          /\ get_by_token(rt, r.token, now) = {}

\* A revoked row that has not expired, after the clock has moved, beside a
\* token that was handed out and has no row any more.
C28_Witness ==
    /\ now > 0
    /\ \E r \in rt : r.is_revoked /\ r.expires_at > now
    /\ \E c \in issued : ~\E r \in rt : r.token = c.tok

\* ------------------------------------------------------------------- C29
\* C29: get_active_by_session_id and get_by_refresh_token return no session
\* that is revoked, and get_by_refresh_token returns none whose refresh expiry
\* has passed or whose refresh_token is cleared; what they return is a row of
\* the table.
C29_RevokedSessionNotReturned ==
    [][/\ (resp'.op = "get_active_by_session_id" /\ USLookupSession(resp'.session_id))
          => \A s \in resp'.found :
                s \in us /\ ~s.is_revoked /\ s.session_id = resp'.session_id
       /\ (resp'.op = "get_by_refresh_token" /\ USLookupToken(resp'.token))
          => \A s \in resp'.found :
                /\ s \in us
                /\ ~s.is_revoked
                /\ s.refresh_expires_at > now
                /\ s.refresh_token # NoToken]_vars

\* A session that is revoked and whose access expiry has not passed was looked
\* up by its session id, and nothing was returned.
C29_Witness ==
    /\ resp.op = "get_active_by_session_id"
    /\ resp.found = {}
    /\ \E s \in us : s.session_id = resp.session_id /\ s.is_revoked /\ s.expires_at > now

\* ------------------------------------------------------------------- C30
\* C30: a read, update or delete of an activity by id, asked by an
\* authenticated user, succeeds only for the owner: for an id of no activity
\* the answer is 404, for an activity of another user it is 403 and the
\* activity is unchanged, and for the owner's own activity it is 200.
C30_ActivityOwnership ==
    [][(/\ req'.op \in ByIdOps
        /\ ApiActivity(req'.op, req'.token, req'.id)
        /\ VerifiesAsAccess(req'.token))
       => LET uid == UserId(req'.token.val)
              found == {a \in acts : a.id = req'.id}
          IN  /\ found = {} => resp'.status = 404
              /\ (\E a \in found : a.user_id # uid) => (resp'.status = 403 /\ acts' = acts)
              /\ (\E a \in found : a.user_id = uid) => resp'.status = 200
              /\ resp'.status = 200 => \E a \in found : a.user_id = uid]_vars

====
